---- MODULE Spec2Model ----
(***************************************************************************)
(* sentry.plugins.base (the plugin registry and the plugin view dispatch)  *)
(* and sentry.utils.javascript (the object transformer registry).          *)
(*                                                                         *)
(* Python values are modelled by strings and records: None is the string  *)
(* "None"; a plugin instance is identified by the dotted path of its       *)
(* class; a call made during an operation is appended to a call log.       *)
(***************************************************************************)
EXTENDS Integers, Sequences, FiniteSets, TLC

VARIABLES
    class_list,     \* PluginManager: the registered class paths, in order
    registered,     \* history: paths registered and not unregistered since
    selected,       \* IPlugin.selected of each plugin instance ("unset" before)
    transformers,   \* javascript.transformers: type -> transformer or None
    op,             \* the operation performed last
    inp,            \* its arguments
    out             \* its result: ret, raised, calls

vars == <<class_list, registered, selected, transformers, op, inp, out>>

\* ------------------------------------------------------------------ bounds
\* Group primary keys are 1..MaxId.
MaxId == 2
\* Sequences handed to transform hold at most MaxLen objects.
MaxLen == 2

\* ------------------------------------------------------------ Python values
None == "None"

\* Python truthiness of the scalar values the model uses.
Truthy(v) == v \notin {"None", "0", "False", "EmptyString", "EmptyList"}

Ids == 1 .. MaxId

\* The runtime types of the objects handed to transform: two model classes and
\* the built-in int, whose instance 0 is falsy.
Types == {"Group", "Event", "int"}

\* =========================================================================
\* sentry/plugins/base.py
\* =========================================================================

\* The plugin classes of the deployment: __module__, __name__, slug and the
\* two configuration forms.  Two classes share a __name__ and two share a
\* slug, so that the dotted path and the scan order matter.
PluginClass ==
    [ mail  |-> [module |-> "sentry_mail", name |-> "Notify", slug |-> "notify",
                 project_conf_form |-> "MailForm", site_conf_form |-> None],
      irc   |-> [module |-> "sentry_irc",  name |-> "Notify", slug |-> "notify",
                 project_conf_form |-> "IrcForm", site_conf_form |-> "IrcSiteForm"],
      plain |-> [module |-> "sentry_trac", name |-> "Plain", slug |-> "plain",
                 project_conf_form |-> None, site_conf_form |-> "PlainSiteForm"] ]

Plugins == DOMAIN PluginClass

\* '%s.%s' % (cls.__module__, cls.__name__)
QualifiedName(cls) == <<PluginClass[cls].module, PluginClass[cls].name>>

\* InstanceManager.add: the class path joins the ordered, set-like collection.
add(cl, class_path) ==
    IF \E i \in 1 .. Len(cl) : cl[i] = class_path THEN cl ELSE Append(cl, class_path)

\* InstanceManager.remove: the class path leaves the collection, if it is there.
remove(cl, class_path) == SelectSeq(cl, LAMBDA x : x # class_path)

\* InstanceManager.all: each registered path resolved to its plugin instance.
all(cl) ==
    [i \in 1 .. Len(cl) |-> CHOOSE p \in Plugins : QualifiedName(p) = cl[i]]

\* PluginManager.register
register(cl, cls) == add(cl, QualifiedName(cls))

\* A plausible slip: unregister forgets to remove.
unregister_noop(cl, cls) == cl

\* PluginManager.unregister
unregister(cl, cls) == remove(cl, QualifiedName(cls))

\* IPlugin.has_project_conf
has_project_conf(plugin) == PluginClass[plugin].project_conf_form # None

\* A plausible slip: has_site_conf copied from has_project_conf unchanged.
has_site_conf_copied(plugin) == PluginClass[plugin].project_conf_form # None

\* IPlugin.has_site_conf
has_site_conf(plugin) == PluginClass[plugin].site_conf_form # None

\* PluginManager.for_project
for_project(cl) == SelectSeq(all(cl), has_project_conf)

\* PluginManager.for_site
for_site(cl) == SelectSeq(all(cl), has_site_conf)

\* The scan of PluginManager.get from position i on.
RECURSIVE get_from(_, _, _)
get_from(ps, slug, i) ==
    IF i > Len(ps) THEN [ret |-> None, raised |-> "KeyError", calls |-> <<>>]
    ELSE IF PluginClass[ps[i]].slug = slug
         THEN [ret |-> ps[i], raised |-> "none", calls |-> <<>>]
         ELSE get_from(ps, slug, i + 1)

\* A plausible slip: a miss returns None instead of raising.
get_or_none(cl, slug) ==
    LET r == get_from(all(cl), slug, 1)
    IN  [r EXCEPT !.raised = "none"]

\* PluginManager.get
get(cl, slug) == get_from(all(cl), slug, 1)

\* The slugs looked up: those of the plugin classes and one no class has.
Slugs == {PluginClass[p].slug : p \in Plugins} \cup {"nonexistent-slug"}

\* The hook results a plugin method may return: None, a falsy value that is
\* not None, and two ordinary results.
HookResults == {None, "0", "r1", "r2"}

\* The loop of PluginManager.first from position i on; results[p] is what the
\* named method of plugin p returns.  calls logs the plugins invoked.
RECURSIVE first_from(_, _, _)
first_from(ps, results, i) ==
    IF i > Len(ps) THEN [ret |-> None, raised |-> "none", calls |-> <<>>]
    ELSE LET result == results[ps[i]]
         IN  IF result # None
             THEN [ret |-> result, raised |-> "none", calls |-> <<ps[i]>>]
             ELSE LET rest == first_from(ps, results, i + 1)
                  IN  [rest EXCEPT !.calls = <<ps[i]>> \o rest.calls]

\* A plausible slip: every plugin is invoked, the first non-None result kept.
first_invoke_all(cl, results) ==
    [first_from(all(cl), results, 1) EXCEPT !.calls = all(cl)]

\* A plausible slip: `if result:` instead of `if result is not None:`.
RECURSIVE first_truthy_from(_, _, _)
first_truthy_from(ps, results, i) ==
    IF i > Len(ps) THEN [ret |-> None, raised |-> "none", calls |-> <<>>]
    ELSE LET result == results[ps[i]]
         IN  IF Truthy(result)
             THEN [ret |-> result, raised |-> "none", calls |-> <<ps[i]>>]
             ELSE LET rest == first_truthy_from(ps, results, i + 1)
                  IN  [rest EXCEPT !.calls = <<ps[i]>> \o rest.calls]

first_truthy(cl, results) == first_truthy_from(all(cl), results, 1)

\* PluginManager.first
first(cl, results) == first_from(all(cl), results, 1)

\* Group.project_id of the group with primary key pk.
project_id(pk) == (pk % 2) + 1

\* IPlugin.get_url: reverse('sentry-group-plugin-action', args=(project_id, pk, slug))
get_url(plugin, group) ==
    <<"sentry-group-plugin-action", project_id(group), group, PluginClass[plugin].slug>>

\* The request paths: every plugin action URL, and a group's details page.
Paths ==
    {get_url(p, g) : p \in Plugins, g \in Ids}
        \cup {<<"sentry-group", project_id(g), g, "">> : g \in {1}}

\* What a plugin's view may return: nothing, an empty string, a redirect, a
\* render Response, a bare HttpResponse, a non-empty string.
ViewResults ==
    {None, "EmptyString", "HttpResponseRedirect", "Response", "HttpResponse", "String"}

\* Response.respond: HttpResponse(self.render(request, context))
respond(response, context) == [kind |-> "HttpResponse", rendered |-> context]

\* A plausible slip: the isinstance(response, Response) check is missing and
\* whatever the view returned is handed back.
get_view_response_unchecked(plugin, path, group, view) ==
    IF path # get_url(plugin, group)
    THEN [ret |-> [kind |-> None], raised |-> "none", calls |-> <<>>, selected |-> "False"]
    ELSE IF ~Truthy(view)
    THEN [ret |-> [kind |-> None], raised |-> "none", calls |-> <<"view">>, selected |-> "True"]
    ELSE IF view = "Response"
    THEN [ret |-> respond(view, {"project", "group"}), raised |-> "none",
          calls |-> <<"view", "respond">>, selected |-> "True"]
    ELSE [ret |-> [kind |-> view], raised |-> "none", calls |-> <<"view">>,
          selected |-> "True"]

\* IPlugin.get_view_response; view is what self.view(request, group) returns
\* when it is called.
get_view_response(plugin, path, group, view) ==
    LET is_selected == IF path = get_url(plugin, group) THEN "True" ELSE "False"
    IN  IF is_selected = "False"
        THEN [ret |-> [kind |-> None], raised |-> "none", calls |-> <<>>,
              selected |-> is_selected]
        ELSE IF ~Truthy(view)
        THEN [ret |-> [kind |-> None], raised |-> "none", calls |-> <<"view">>,
              selected |-> is_selected]
        ELSE IF view = "HttpResponseRedirect"
        THEN [ret |-> [kind |-> view], raised |-> "none", calls |-> <<"view">>,
              selected |-> is_selected]
        ELSE IF view # "Response"
        THEN [ret |-> [kind |-> None], raised |-> "NotImplementedError",
              calls |-> <<"view">>, selected |-> is_selected]
        ELSE [ret |-> respond(view, {"project", "group"}), raised |-> "none",
              calls |-> <<"view", "respond">>, selected |-> is_selected]

\* ------------------------------------------------------- registry actions

Register(cls) ==
    /\ class_list' = register(class_list, cls)
    /\ registered' = registered \cup {QualifiedName(cls)}
    /\ op' = "register"
    /\ inp' = [cls |-> cls, before |-> class_list]
    /\ out' = [ret |-> cls, raised |-> "none", calls |-> <<>>]
    /\ UNCHANGED <<selected, transformers>>

Unregister(cls) ==
    /\ class_list' = unregister(class_list, cls)
    /\ registered' = registered \ {QualifiedName(cls)}
    /\ op' = "unregister"
    /\ inp' = [cls |-> cls, before |-> class_list]
    /\ out' = [ret |-> cls, raised |-> "none", calls |-> <<>>]
    /\ UNCHANGED <<selected, transformers>>

ForProject ==
    /\ op' = "for_project"
    /\ inp' = [before |-> class_list]
    /\ out' = [ret |-> for_project(class_list), raised |-> "none", calls |-> <<>>]
    /\ UNCHANGED <<class_list, registered, selected, transformers>>

ForSite ==
    /\ op' = "for_site"
    /\ inp' = [before |-> class_list]
    /\ out' = [ret |-> for_site(class_list), raised |-> "none", calls |-> <<>>]
    /\ UNCHANGED <<class_list, registered, selected, transformers>>

Get(slug) ==
    /\ op' = "get"
    /\ inp' = [slug |-> slug, before |-> class_list]
    /\ out' = get(class_list, slug)
    /\ UNCHANGED <<class_list, registered, selected, transformers>>

First(results) ==
    /\ op' = "first"
    /\ inp' = [results |-> results, before |-> class_list]
    /\ out' = first(class_list, results)
    /\ UNCHANGED <<class_list, registered, selected, transformers>>

GetViewResponse(plugin, path, group, view) ==
    LET r == get_view_response(plugin, path, group, view)
    IN  /\ op' = "get_view_response"
        /\ inp' = [plugin |-> plugin, path |-> path, group |-> group, view |-> view]
        /\ out' = [ret |-> r.ret, raised |-> r.raised, calls |-> r.calls]
        /\ selected' = [selected EXCEPT ![plugin] = r.selected]
        /\ UNCHANGED <<class_list, registered, transformers>>

\* =========================================================================
\* sentry/utils/javascript.py
\* =========================================================================

\* The request objects: an anonymous visitor's request and a signed-in
\* member's request, which carries a timezone.  None stands for no request.
Requests == {"anonymous", "member"}

\* request.user.is_authenticated()
is_authenticated(request) == request = "member"

\* getattr(request, 'timezone', None)
timezone_of(request) == IF request = "member" THEN "Europe/Vienna" ELSE None

\* An object as it comes from the store: no metadata attribute attached.
\* has is the set of attached attribute names (what hasattr sees).
Obj(type, id) ==
    [type |-> type, id |-> id, has |-> {}, is_bookmarked |-> FALSE,
     has_seen |-> FALSE, historical_data |-> <<>>, annotations |-> <<>>]

\* The model instances a sequence may hold: the groups and one event.
Models == {Obj("Group", id) : id \in Ids} \cup {Obj("Event", 1)}

\* The sequences of at most n model instances.
RECURSIVE SeqsUpTo(_)
SeqsUpTo(n) ==
    IF n = 0 THEN {<<>>}
    ELSE LET shorter == SeqsUpTo(n - 1)
         IN  shorter \cup {Append(s, o) : s \in {x \in shorter : Len(x) = n - 1}, o \in Models}

\* What transform may be handed: None, a list, an empty or one-element tuple,
\* or a single object (a model instance or the int 0).
Inputs ==
    {[kind |-> None, items |-> <<>>]}
        \cup {[kind |-> "list", items |-> s] : s \in SeqsUpTo(MaxLen)}
        \cup {[kind |-> "tuple", items |-> s] : s \in SeqsUpTo(1)}
        \cup {[kind |-> "obj", items |-> <<o>>] : o \in Models \cup {Obj("int", 0)}}

\* env.request, when the caller passes no request: missing, or the signed-in
\* member's request the middleware stored.
EnvRequests == {None, "member"}

\* bool(objects): None and empty sequences are falsy, and so is the int 0;
\* model instances are always truthy.
ObjectsTruthy(objects) ==
    IF objects.kind = None THEN FALSE
    ELSE IF objects.kind \in {"list", "tuple"} THEN Len(objects.items) > 0
    ELSE ~(objects.items[1].type = "int" /\ objects.items[1].id = 0)

\* The identity of an object, whatever is attached to it.
Ident(o) == <<o.type, o.id>>

\* The Group row with primary key pk, as the store holds it.  A time of 0 is
\* a null column (active_at, resolved_at).
Group(pk) ==
    [id |-> pk, pk |-> pk, times_seen |-> 10 * pk,
     title |-> "<title>", message |-> "<message>", level |-> 40,
     level_display |-> "error", logger |-> "root",
     organization_slug |-> "org", project_slug |-> "proj", project_name |-> "<Proj>",
     status |-> IF pk % 3 = 1 THEN "RESOLVED" ELSE IF pk % 3 = 2 THEN "IGNORED"
                ELSE "UNRESOLVED",
     first_seen |-> pk, active_at |-> IF pk % 2 = 0 THEN pk + 1 ELSE 0,
     last_seen |-> pk + 2, resolved_at |-> IF pk % 3 = 1 THEN pk + (pk % 2) * 4 ELSE 0,
     is_public |-> FALSE]

\* GroupBookmark rows of the member: the bookmarked group ids.
GroupBookmarkRows == {pk \in Ids : pk % 2 = 1}

\* GroupSeen rows of the member: group id -> last_seen.
GroupSeenRows == [pk \in {x \in Ids : x % 2 = 1} |-> pk + 5]

\* tsdb.get_range over the last day: key -> <<timestamp, count>> pairs.
tsdb_get_range(keys) == [k \in keys |-> << <<0, k>>, <<1, k + 1>> >>]

\* GroupTagKey rows with key 'sentry:user': group id -> values_seen.
GroupTagKeyRows == [pk \in {x \in Ids : x % 2 = 0} |-> 7 * pk]

\* dict.get(key, default)
dict_get(d, key, default) == IF key \in DOMAIN d THEN d[key] ELSE default

\* Transformer.attach_metadata: pass
Transformer_attach_metadata(objects, request) ==
    [objects |-> objects, io |-> <<>>]

\* Transformer.transform: return {}
Transformer_transform(obj, request) == <<>>

\* A plausible slip: the hook is dispatched under the same condition as the
\* per-user queries, an authenticated user.
GroupTransformer_attach_metadata_auth_hook(objects, request) ==
    LET nonempty == Len(objects) > 0
        authed == request # None /\ is_authenticated(request) /\ nonempty
        ids == {objects[i].id : i \in 1 .. Len(objects)}
        bookmarks == IF authed THEN GroupBookmarkRows \cap ids ELSE {}
        seen_groups == IF authed
                       THEN [pk \in ids \cap DOMAIN GroupSeenRows |-> GroupSeenRows[pk]]
                       ELSE <<>>
        historical_data == IF nonempty THEN tsdb_get_range(ids) ELSE <<>>
        user_counts == [pk \in ids \cap DOMAIN GroupTagKeyRows |-> GroupTagKeyRows[pk]]
        annotate(g) ==
            LET active_date == IF Group(g.id).active_at # 0 THEN Group(g.id).active_at
                               ELSE Group(g.id).first_seen
                hist == dict_get(historical_data, g.id, <<>>)
            IN  [g EXCEPT
                   !.has = @ \cup {"is_bookmarked", "historical_data", "has_seen",
                                   "annotations"},
                   !.is_bookmarked = Group(g.id).pk \in bookmarks,
                   !.historical_data = [i \in 1 .. Len(hist) |-> hist[i][2]],
                   !.has_seen = dict_get(seen_groups, g.id, active_date) > active_date,
                   !.annotations = <<[label |-> "users",
                                      count |-> dict_get(user_counts, g.id, 0)]>>]
    IN  [objects |-> [i \in 1 .. Len(objects) |-> annotate(objects[i])],
         io |-> <<"attach_foreignkey", "GroupMeta.populate_cache">>
                \o (IF authed THEN <<"handle_before_events">> ELSE <<>>)
                \o (IF authed THEN <<"GroupBookmark.filter", "GroupSeen.filter">> ELSE <<>>)
                \o (IF nonempty THEN <<"tsdb.get_range">> ELSE <<>>)
                \o <<"GroupTagKey.filter">>]

\* A plausible slip: the metadata is attached only when there is a request.
GroupTransformer_attach_metadata_request_only(objects, request) ==
    LET nonempty == Len(objects) > 0
        authed == request # None /\ is_authenticated(request) /\ nonempty
        ids == {objects[i].id : i \in 1 .. Len(objects)}
        bookmarks == IF authed THEN GroupBookmarkRows \cap ids ELSE {}
        seen_groups == IF authed
                       THEN [pk \in ids \cap DOMAIN GroupSeenRows |-> GroupSeenRows[pk]]
                       ELSE <<>>
        historical_data == IF nonempty THEN tsdb_get_range(ids) ELSE <<>>
        user_counts == [pk \in ids \cap DOMAIN GroupTagKeyRows |-> GroupTagKeyRows[pk]]
        annotate(g) ==
            LET active_date == IF Group(g.id).active_at # 0 THEN Group(g.id).active_at
                               ELSE Group(g.id).first_seen
                hist == dict_get(historical_data, g.id, <<>>)
            IN  IF request = None THEN g
                ELSE [g EXCEPT
                   !.has = @ \cup {"is_bookmarked", "historical_data", "has_seen",
                                   "annotations"},
                   !.is_bookmarked = Group(g.id).pk \in bookmarks,
                   !.historical_data = [i \in 1 .. Len(hist) |-> hist[i][2]],
                   !.has_seen = dict_get(seen_groups, g.id, active_date) > active_date,
                   !.annotations = <<[label |-> "users",
                                      count |-> dict_get(user_counts, g.id, 0)]>>]
    IN  [objects |-> [i \in 1 .. Len(objects) |-> annotate(objects[i])],
         io |-> <<"attach_foreignkey", "GroupMeta.populate_cache">>
                \o (IF request # None /\ nonempty THEN <<"handle_before_events">> ELSE <<>>)
                \o (IF authed THEN <<"GroupBookmark.filter", "GroupSeen.filter">> ELSE <<>>)
                \o (IF nonempty THEN <<"tsdb.get_range">> ELSE <<>>)
                \o <<"GroupTagKey.filter">>]

\* GroupTransformer.attach_metadata.  objects is the batch, each a group;
\* the result is the batch with the metadata attached in place, and io the
\* collaborators called, in order.
GroupTransformer_attach_metadata(objects, request) ==
    LET nonempty == Len(objects) > 0
        authed == request # None /\ is_authenticated(request) /\ nonempty
        ids == {objects[i].id : i \in 1 .. Len(objects)}
        bookmarks == IF authed THEN GroupBookmarkRows \cap ids ELSE {}
        seen_groups == IF authed
                       THEN [pk \in ids \cap DOMAIN GroupSeenRows |-> GroupSeenRows[pk]]
                       ELSE <<>>
        historical_data == IF nonempty THEN tsdb_get_range(ids) ELSE <<>>
        user_counts == [pk \in ids \cap DOMAIN GroupTagKeyRows |-> GroupTagKeyRows[pk]]
        annotate(g) ==
            LET active_date == IF Group(g.id).active_at # 0 THEN Group(g.id).active_at
                               ELSE Group(g.id).first_seen
                hist == dict_get(historical_data, g.id, <<>>)
            IN  [g EXCEPT
                   !.has = @ \cup {"is_bookmarked", "historical_data", "has_seen",
                                   "annotations"},
                   !.is_bookmarked = Group(g.id).pk \in bookmarks,
                   !.historical_data = [i \in 1 .. Len(hist) |-> hist[i][2]],
                   !.has_seen = dict_get(seen_groups, g.id, active_date) > active_date,
                   !.annotations = <<[label |-> "users",
                                      count |-> dict_get(user_counts, g.id, 0)]>>]
    IN  [objects |-> [i \in 1 .. Len(objects) |-> annotate(objects[i])],
         io |-> <<"attach_foreignkey", "GroupMeta.populate_cache">>
                \o (IF request # None /\ nonempty THEN <<"handle_before_events">> ELSE <<>>)
                \o (IF authed THEN <<"GroupBookmark.filter", "GroupSeen.filter">> ELSE <<>>)
                \o (IF nonempty THEN <<"tsdb.get_range">> ELSE <<>>)
                \o <<"GroupTagKey.filter">>]

\* GroupTransformer.localize_datetime: the ISO form of dt, in the request's
\* timezone when it has one.
localize_datetime(dt, request) ==
    IF request = None THEN <<"isoformat", dt, None>>
    ELSE IF timezone_of(request) # None THEN <<"isoformat", dt, timezone_of(request)>>
    ELSE <<"isoformat", dt, None>>

\* django.utils.html.escape
escape(text) == <<"escaped", text>>

\* six.text_type
text_type(n) == <<"text", n>>

\* GroupTransformer.transform: the dictionary of one group, key -> value.
GroupTransformer_transform(obj, request) ==
    LET g == Group(obj.id)
        status_label == IF g.status = "RESOLVED" THEN "resolved"
                        ELSE IF g.status = "IGNORED" THEN "ignored" ELSE "unresolved"
        version == IF g.resolved_at # 0
                   THEN (IF g.resolved_at > g.last_seen THEN g.resolved_at ELSE g.last_seen)
                   ELSE g.last_seen
        d == [id |-> text_type(g.id),
              count |-> text_type(g.times_seen),
              title |-> escape(g.title),
              message |-> escape(g.message),
              level |-> g.level,
              levelName |-> escape(g.level_display),
              logger |-> escape(g.logger),
              permalink |-> <<"sentry-group", g.organization_slug, g.project_slug, g.id>>,
              firstSeen |-> localize_datetime(g.first_seen, request),
              lastSeen |-> localize_datetime(g.last_seen, request),
              canResolve |-> IF request = None THEN None ELSE is_authenticated(request),
              status |-> status_label,
              isResolved |-> g.status = "RESOLVED",
              isPublic |-> g.is_public,
              score |-> 0,
              project |-> [name |-> escape(g.project_name), slug |-> g.project_slug],
              version |-> version]
    IN  d @@ (IF "is_bookmarked" \in obj.has
              THEN "isBookmarked" :> obj.is_bookmarked ELSE <<>>)
          @@ (IF "has_seen" \in obj.has THEN "hasSeen" :> obj.has_seen ELSE <<>>)
          @@ (IF "historical_data" \in obj.has
              THEN "historicalData" :> obj.historical_data ELSE <<>>)
          @@ (IF "annotations" \in obj.has
              THEN "annotations" :> obj.annotations ELSE <<>>)
          @@ (IF request # None
              THEN "tags" :> <<"get_legacy_annotations", obj.id, request>> ELSE <<>>)

\* t.attach_metadata(objects, request=request), dispatched on the class of t
attach_metadata(t, objects, request) ==
    IF t = "GroupTransformer" THEN GroupTransformer_attach_metadata(objects, request)
    ELSE Transformer_attach_metadata(objects, request)

\* Transformer.__call__: self.transform(obj, request), dispatched on the class
call(t, obj, request) ==
    IF t = "GroupTransformer" THEN GroupTransformer_transform(obj, request)
    ELSE Transformer_transform(obj, request)

\* The journal entries of the two transformer entry points.
AttachCall(t, objects, request) ==
    [f |-> "attach_metadata", cls |-> t, request |-> request,
     arg |-> [i \in 1 .. Len(objects) |-> Ident(objects[i])]]

ItemCall(t, o, request) ==
    [f |-> "transform", cls |-> t, request |-> request, arg |-> <<Ident(o)>>]

\* A plausible slip: the transformer is looked up for every element, and an
\* element whose type has none is passed through.
transform_list_per_item(objects, request, tf) ==
    LET t == tf[objects.items[1].type]
        n == Len(objects.items)
        known == {i \in 1 .. n : tf[objects.items[i].type] # None}
    IN  IF t # None
        THEN LET am == attach_metadata(t, objects.items, request)
                 idx == SelectSeq([i \in 1 .. n |-> i], LAMBDA i : i \in known)
             IN  [ret |-> [kind |-> "dicts",
                           items |-> [k \in 1 .. Len(idx) |->
                                         call(t, am.objects[idx[k]], request)]],
                  calls |-> <<AttachCall(t, objects.items, request)>>
                            \o [k \in 1 .. Len(idx) |-> ItemCall(t, am.objects[idx[k]], request)],
                  io |-> am.io, objects |-> am.objects]
        ELSE [ret |-> objects, calls |-> <<>>, io |-> <<>>, objects |-> objects.items]

\* transform, from the transformer lookup on: objects is a non-empty list or
\* tuple, request the resolved request, tf the transformers table.
transform_list(objects, request, tf) ==
    LET t == tf[objects.items[1].type]
    IN  IF t # None
        THEN LET am == attach_metadata(t, objects.items, request)
             IN  [ret |-> [kind |-> "dicts",
                           items |-> [i \in 1 .. Len(am.objects) |->
                                         call(t, am.objects[i], request)]],
                  calls |-> <<AttachCall(t, objects.items, request)>>
                            \o [i \in 1 .. Len(am.objects) |-> ItemCall(t, am.objects[i], request)],
                  io |-> am.io, objects |-> am.objects]
        ELSE [ret |-> objects, calls |-> <<>>, io |-> <<>>, objects |-> objects.items]

\* transform([objects], request=request)[0]
first_item(r) ==
    [r EXCEPT !.ret = [kind |-> IF r.ret.kind = "dicts" THEN "dict" ELSE "obj",
                       items |-> <<r.ret.items[1]>>]]

RECURSIVE transform(_, _, _, _)

\* A plausible slip: the single object's result is not taken out of the list.
transform_wrapped(objects, request, env_request, tf) ==
    LET req == IF request = None THEN env_request ELSE request
    IN  IF ~ObjectsTruthy(objects)
        THEN [ret |-> objects, calls |-> <<>>, io |-> <<>>, objects |-> objects.items]
        ELSE IF objects.kind \notin {"list", "tuple"}
        THEN transform_list([kind |-> "list", items |-> objects.items], req, tf)
        ELSE transform_list(objects, req, tf)

\* transform(objects, request=None); env_request is env.request, None when
\* the attribute is missing.
transform(objects, request, env_request, tf) ==
    LET req == IF request = None THEN env_request ELSE request
    IN  IF ~ObjectsTruthy(objects)
        THEN [ret |-> objects, calls |-> <<>>, io |-> <<>>, objects |-> objects.items]
        ELSE IF objects.kind \notin {"list", "tuple"}
        THEN first_item(transform([kind |-> "list", items |-> objects.items],
                                  req, env_request, tf))
        ELSE transform_list(objects, req, tf)

\* The transformer classes and the types register is applied to: the base
\* Transformer to either model class, GroupTransformer to Group.
Registrations ==
    {<<"Group", "Transformer">>, <<"Group", "GroupTransformer">>, <<"Event", "Transformer">>}

\* register(type)(cls): transformers[type] = cls()
register_transformer(tf, type, cls) == [tf EXCEPT ![type] = cls]

\* ----------------------------------------------------- transformer actions

RegisterTransformer(type, cls) ==
    /\ transformers' = register_transformer(transformers, type, cls)
    /\ op' = "register_transformer"
    /\ inp' = [type |-> type, cls |-> cls]
    /\ out' = [ret |-> cls, raised |-> "none", calls |-> <<>>]
    /\ UNCHANGED <<class_list, registered, selected>>

\* GroupTransformer reads the fields of a Group: a batch it is handed holds
\* groups only.
Transform(objects, request, env_request) ==
    /\ (ObjectsTruthy(objects) /\ transformers[objects.items[1].type] = "GroupTransformer")
          => \A i \in 1 .. Len(objects.items) : objects.items[i].type = "Group"
    /\ op' = "transform"
    /\ inp' = [objects |-> objects, request |-> request, env_request |-> env_request]
    /\ out' = transform(objects, request, env_request, transformers)
                 @@ [raised |-> "none"]
    /\ UNCHANGED <<class_list, registered, selected, transformers>>

\* ------------------------------------------------------------ registry spec

\* plugins = PluginManager(): nothing registered, no plugin dispatched yet;
\* @register(Group) has run at import of sentry.utils.javascript.
Init ==
    /\ class_list = <<>>
    /\ registered = {}
    /\ selected = [p \in Plugins |-> "unset"]
    /\ transformers = [t \in Types |-> IF t = "Group" THEN "GroupTransformer" ELSE None]
    /\ op = "init"
    /\ inp = [before |-> <<>>]
    /\ out = [ret |-> None, raised |-> "none", calls |-> <<>>]

Next ==
    \/ \E cls \in Plugins : Register(cls)
    \/ \E cls \in Plugins : Unregister(cls)
    \/ ForProject
    \/ ForSite
    \/ \E slug \in Slugs : Get(slug)
    \/ \E results \in [Plugins -> HookResults] : First(results)

Spec == Init /\ [][Next]_vars

\* ---------------------------------------------------------------- view spec

\* The three plugin classes are registered and a request is dispatched to
\* their instances.
InitView ==
    /\ class_list = <<QualifiedName("mail"), QualifiedName("irc"), QualifiedName("plain")>>
    /\ registered = {QualifiedName(p) : p \in Plugins}
    /\ selected = [p \in Plugins |-> "unset"]
    /\ transformers = [t \in Types |-> IF t = "Group" THEN "GroupTransformer" ELSE None]
    /\ op = "init"
    /\ inp = [before |-> <<>>]
    /\ out = [ret |-> None, raised |-> "none", calls |-> <<>>]

NextView ==
    \E i \in 1 .. Len(class_list), path \in Paths, group \in Ids, view \in ViewResults :
        GetViewResponse(all(class_list)[i], path, group, view)

SpecView == InitView /\ [][NextView]_vars

\* --------------------------------------------------------- transformer spec

NextTransform ==
    \/ \E r \in Registrations : RegisterTransformer(r[1], r[2])
    \/ \E objects \in Inputs, request \in Requests \cup {None},
          env_request \in EnvRequests :
            Transform(objects, request, env_request)

SpecTransform == Init /\ [][NextTransform]_vars

\* =========================================================================
\* Properties
\* =========================================================================

Range(s) == {s[i] : i \in 1 .. Len(s)}

Min(S) == CHOOSE x \in S : \A y \in S : x <= y

\* The positions of the registered plugins whose hook result is not None.
Hits == {i \in 1 .. Len(class_list) : inp.results[all(class_list)[i]] # None}

\* C1, as stated: first invokes the named method on every registered plugin
\* in registration order, those after the one whose result is returned too.
C1_InvokesEveryPlugin ==
    op = "first" => out.calls = all(class_list)

\* C1, amended: first invokes the named method on the registered plugins in
\* registration order up to and including the first whose result is not
\* None, and on none after it; all are invoked only when every result is None.
C1_StopsAtFirstResult ==
    op = "first" =>
        out.calls = SubSeq(all(class_list), 1,
                           IF Hits = {} THEN Len(class_list) ELSE Min(Hits))

C1_Witness ==
    /\ op = "first"
    /\ Len(class_list) = 3
    /\ Len(out.calls) = 2
    /\ out.ret # None

\* C2: first returns the result of the earliest plugin in registration order
\* whose result is not None, a falsy result included, and None when every
\* result is None.
C2_FirstNonNullResult ==
    op = "first" =>
        /\ out.raised = "none"
        /\ out.ret = IF Hits = {} THEN None
                     ELSE inp.results[all(class_list)[Min(Hits)]]

C2_Witness ==
    /\ op = "first"
    /\ Len(class_list) = 3
    /\ Min(Hits \cup {4}) = 2
    /\ out.ret = "0"
    /\ inp.results[all(class_list)[3]] = "r1"

\* C4: all() yields exactly one plugin for each class path registered and not
\* unregistered since; registering a present path adds no entry,
\* unregistering an absent one raises nothing and changes nothing, and an
\* unregistered plugin is in none of all(), for_project(), for_site().
C4_RegistryTracksRegistrations ==
    /\ {QualifiedName(p) : p \in Range(all(class_list))} = registered
    /\ Cardinality(Range(all(class_list))) = Len(all(class_list))
    /\ Len(class_list) = Cardinality(registered)
    /\ (op = "register" /\ QualifiedName(inp.cls) \in Range(inp.before))
          => class_list = inp.before
    /\ op = "unregister" =>
          /\ out.raised = "none"
          /\ QualifiedName(inp.cls) \notin Range(inp.before) => class_list = inp.before
          /\ inp.cls \notin Range(all(class_list))
          /\ inp.cls \notin Range(for_project(class_list))
          /\ inp.cls \notin Range(for_site(class_list))

C4_Witness ==
    /\ op = "unregister"
    /\ QualifiedName(inp.cls) \in Range(inp.before)
    /\ Len(inp.before) = 3
    /\ Len(class_list) = 2

\* s lists exactly the members of S among those of ps, in the order of ps.
IsFiltered(s, ps, S) ==
    /\ Range(s) = Range(ps) \cap S
    /\ \A i, j \in 1 .. Len(s) : i < j =>
          \E a, b \in 1 .. Len(ps) : a < b /\ ps[a] = s[i] /\ ps[b] = s[j]

\* C5: for_project() yields exactly the plugins of all() whose
\* project_conf_form is not None, for_site() those whose site_conf_form is
\* not None, each in the order of all(), and the registry is left as it was.
C5_ConfFilters ==
    /\ op = "for_project" =>
          /\ IsFiltered(out.ret, all(class_list),
                        {p \in Plugins : PluginClass[p].project_conf_form # None})
          /\ class_list = inp.before
    /\ op = "for_site" =>
          /\ IsFiltered(out.ret, all(class_list),
                        {p \in Plugins : PluginClass[p].site_conf_form # None})
          /\ class_list = inp.before

C5_Witness ==
    /\ op = "for_site"
    /\ Len(class_list) = 3
    /\ out.ret = <<"plain", "irc">>

\* C6: get(slug) returns the first plugin in registration order whose slug is
\* the argument, and raises KeyError, leaving the registry as it was, when no
\* registered plugin has that slug.
C6_GetBySlug ==
    op = "get" =>
        LET ps == all(class_list)
            matches == {i \in 1 .. Len(ps) : PluginClass[ps[i]].slug = inp.slug}
        IN  /\ class_list = inp.before
            /\ matches = {} => out.raised = "KeyError"
            /\ matches # {} => out.raised = "none" /\ out.ret = ps[Min(matches)]

C6_Witness ==
    /\ op = "get"
    /\ Len(class_list) = 3
    /\ inp.slug = "nonexistent-slug"
    /\ out.raised = "KeyError"

\* C7: get_view_response calls view only when the request path is the
\* plugin's own URL and otherwise answers nothing; of what view returns, an
\* empty value gives no response, a redirect is returned as it is, a render
\* Response becomes an HTTP response, anything else raises
\* NotImplementedError.
C7_ViewDispatch ==
    op = "get_view_response" =>
        LET own == inp.path = get_url(inp.plugin, inp.group)
        IN  /\ ("view" \in Range(out.calls)) <=> own
            /\ ~own => out.ret.kind = None /\ out.raised = "none"
            /\ (own /\ inp.view \in {None, "EmptyString"})
                  => out.ret.kind = None /\ out.raised = "none"
            /\ (own /\ inp.view = "HttpResponseRedirect")
                  => out.ret = [kind |-> "HttpResponseRedirect"] /\ out.raised = "none"
            /\ (own /\ inp.view = "Response")
                  => /\ out.ret.kind = "HttpResponse"
                     /\ "rendered" \in DOMAIN out.ret
                     /\ out.raised = "none"
            /\ (own /\ inp.view \in {"HttpResponse", "String"})
                  => out.raised = "NotImplementedError"

C7_Witness ==
    /\ op = "get_view_response"
    /\ inp.path = get_url(inp.plugin, inp.group)
    /\ inp.view = "String"
    /\ out.raised = "NotImplementedError"
    /\ out.calls = <<"view">>

\* The last operation was a transform that reached GroupTransformer.
ByGroupTransformer ==
    /\ op = "transform"
    /\ Len(out.calls) > 0
    /\ out.calls[1].f = "attach_metadata"
    /\ out.calls[1].cls = "GroupTransformer"

OptionalKeys == {"isBookmarked", "hasSeen", "historicalData", "annotations", "tags"}

\* C3, as stated: with no request context every output dictionary of a group
\* has none of isBookmarked, hasSeen, historicalData, annotations and tags.
C3_OptionalKeysAbsent ==
    (ByGroupTransformer /\ out.calls[1].request = None) =>
        \A i \in 1 .. Len(out.ret.items) :
            DOMAIN out.ret.items[i] \cap OptionalKeys = {}

\* C3, amended: with no request context every output dictionary of a group
\* lacks tags, and holds isBookmarked and hasSeen, both false, with
\* historicalData and annotations: the batch step attaches the four
\* attributes to every group, request or not.
C3_TagsAbsentMetadataPresent ==
    (ByGroupTransformer /\ out.calls[1].request = None) =>
        \A i \in 1 .. Len(out.ret.items) :
            LET d == out.ret.items[i]
            IN  /\ DOMAIN d \cap OptionalKeys = OptionalKeys \ {"tags"}
                /\ d["isBookmarked"] = FALSE
                /\ d["hasSeen"] = FALSE

C3_Witness ==
    /\ ByGroupTransformer
    /\ inp.request = None
    /\ inp.env_request = None
    /\ out.ret.kind = "dicts"
    /\ Len(out.ret.items) = 2
    /\ "isBookmarked" \in DOMAIN out.ret.items[1]
    /\ "tags" \notin DOMAIN out.ret.items[1]

\* C8: transform returns its input as it is, calling no attach_metadata and
\* no per-item transform, for None, for an empty sequence and when the type
\* of the first element has no transformer; a single object gives a single
\* result, the object itself or one dictionary, never a list.
C8_PassThroughAndSingle ==
    op = "transform" =>
        LET o == inp.objects
            unregistered == Len(o.items) > 0 /\ transformers[o.items[1].type] = None
        IN  /\ (o.kind = None \/ Len(o.items) = 0 \/ unregistered)
                  => /\ out.ret.kind = o.kind
                     /\ out.ret = o
                     /\ out.calls = <<>>
                     /\ out.io = <<>>
                     /\ out.objects = o.items
            /\ o.kind = "obj"
                  => /\ out.ret.kind \in {"obj", "dict"}
                     /\ Len(out.ret.items) = 1
                     /\ out.ret.kind = "dict" <=> ~unregistered

C8_Witness ==
    /\ op = "transform"
    /\ inp.objects.kind = "obj"
    /\ out.ret.kind = "dict"
    /\ Len(out.calls) = 2

\* C9, as stated: the before-events hook is invoked, and bookmark and
\* last-seen data loaded, only for a request with an authenticated user.
C9_HookOnlyWhenAuthenticated ==
    ByGroupTransformer =>
        (Range(out.io) \cap {"handle_before_events", "GroupBookmark.filter",
                             "GroupSeen.filter"} # {}
            => /\ out.calls[1].request # None
               /\ is_authenticated(out.calls[1].request))

\* C9, amended: on a non-empty batch the before-events hook is invoked
\* whenever there is a request, its user authenticated or not, and never
\* without one; bookmark and last-seen data are loaded only for a request
\* with an authenticated user.
C9_HookWheneverRequest ==
    ByGroupTransformer =>
        LET request == out.calls[1].request
            authed == request # None /\ is_authenticated(request)
        IN  /\ ("handle_before_events" \in Range(out.io)) <=> request # None
            /\ ("GroupBookmark.filter" \in Range(out.io)) <=> authed
            /\ ("GroupSeen.filter" \in Range(out.io)) <=> authed
            /\ ~authed => \A i \in 1 .. Len(out.objects) :
                              ~out.objects[i].is_bookmarked /\ ~out.objects[i].has_seen

C9_Witness ==
    /\ ByGroupTransformer
    /\ out.calls[1].request = "anonymous"
    /\ "handle_before_events" \in Range(out.io)
    /\ "GroupBookmark.filter" \notin Range(out.io)

\* C10: for a non-empty sequence whose first element's type has a
\* transformer, transform calls its attach_metadata once with the whole
\* sequence, then its per-item transform once for each element in input
\* order, whatever the element's own type; the output is as long as the input
\* and in its order.
C10_BatchThenEachInOrder ==
    (/\ op = "transform"
     /\ inp.objects.kind \in {"list", "tuple"}
     /\ Len(inp.objects.items) > 0
     /\ transformers[inp.objects.items[1].type] # None) =>
        LET items == inp.objects.items
            n == Len(items)
            t == transformers[items[1].type]
        IN  /\ Len(out.calls) = n + 1
            /\ out.calls[1].f = "attach_metadata"
            /\ out.calls[1].cls = t
            /\ out.calls[1].arg = [i \in 1 .. n |-> Ident(items[i])]
            /\ \A i \in 1 .. n :
                  /\ out.calls[i + 1].f = "transform"
                  /\ out.calls[i + 1].cls = t
                  /\ out.calls[i + 1].arg = <<Ident(items[i])>>
            /\ out.ret.kind = "dicts"
            /\ Len(out.ret.items) = n
            /\ t = "GroupTransformer" =>
                  \A i \in 1 .. n : out.ret.items[i]["id"] = text_type(items[i].id)

C10_Witness ==
    /\ op = "transform"
    /\ inp.objects.kind = "list"
    /\ Len(inp.objects.items) = 2
    /\ inp.objects.items[1].type = "Event"
    /\ inp.objects.items[2].type = "Group"
    /\ Len(out.calls) = 3
    /\ Len(out.ret.items) = 2

====
